---------------------------- MODULE Spec2Model ----------------------------
(***************************************************************************)
(* Model of the resume screener service: the requirement miner and the     *)
(* weighted scorer of utils/scoring_logic.py, the heuristic extractor of   *)
(* utils/resume_parser.py and the request handler of app.py.               *)
(*                                                                         *)
(* Text is a sequence of one-character strings, so that lower(), strip(),  *)
(* replace(), split(), the `in` substring test and the regular expressions *)
(* of the source are computed character by character.  Numbers that are    *)
(* floats in the source are exact rationals [n, d] here; similarities are  *)
(* given in thousandths.                                                   *)
(***************************************************************************)
EXTENDS Integers, Sequences, FiniteSets, TLC

(***************************************************************************)
(* Characters and strings                                                  *)
(***************************************************************************)
UpperChars == <<"A","B","C","D","E","F","G","H","I","J","K","L","M",
                "N","O","P","Q","R","S","T","U","V","W","X","Y","Z">>

LowerChars == <<"a","b","c","d","e","f","g","h","i","j","k","l","m",
                "n","o","p","q","r","s","t","u","v","w","x","y","z">>

DigitChars == <<"0","1","2","3","4","5","6","7","8","9">>

Range(f) == {f[i] : i \in DOMAIN f}

Min(S) == CHOOSE x \in S : \A y \in S : x <= y

Max(S) == CHOOSE x \in S : \A y \in S : y <= x

\* [a-zA-Z]
AlphaClass == Range(UpperChars) \cup Range(LowerChars)

IsAlpha(c) == c \in AlphaClass

\* \d
DigitClass == Range(DigitChars)

IsDigit(c) == c \in DigitClass

\* \s (the whitespace of the texts modelled: space, newline, tab)
SpaceClass == {" ", "\n", "\t"}

IsSpace(c) == c \in SpaceClass

\* str.lower() of one character
LowerChar(c) ==
    IF c \in Range(UpperChars)
    THEN LowerChars[CHOOSE i \in 1..26 : UpperChars[i] = c]
    ELSE c

\* str.lower()
ToLower(s) == [i \in 1..Len(s) |-> LowerChar(s[i])]

\* the literal lit (lower case) stands at position i of s, re.IGNORECASE
LitAt(s, i, lit) ==
    /\ i >= 1
    /\ i + Len(lit) - 1 <= Len(s)
    /\ \A k \in 1..Len(lit) : LowerChar(s[i + k - 1]) = lit[k]

\* the position after a greedy run of class characters that starts at i
RunEnd(s, i, class) ==
    Min({j \in i..(Len(s) + 1) : j = Len(s) + 1 \/ s[j] \notin class})

\* \s* from position i: the first position that holds no whitespace
SkipSpace(s, i) == RunEnd(s, i, SpaceClass)

\* sub in s (Python's substring test)
Contains(s, sub) ==
    \E i \in 1..(Len(s) + 1) :
        /\ i + Len(sub) - 1 <= Len(s)
        /\ \A k \in 1..Len(sub) : s[i + k - 1] = sub[k]

\* str.strip()
Strip(s) ==
    LET keep == {i \in 1..Len(s) : ~IsSpace(s[i])}
    IN  IF keep = {} THEN <<>> ELSE SubSeq(s, Min(keep), Max(keep))

\* str.replace(c, '') for every c of chars
RemoveChars(s, chars) == SelectSeq(s, LAMBDA c : c \notin chars)

\* re.split on a one-character class
RECURSIVE SplitOn(_, _)
SplitOn(s, seps) ==
    LET hits == {i \in 1..Len(s) : s[i] \in seps}
    IN  IF hits = {} THEN <<s>>
        ELSE <<SubSeq(s, 1, Min(hits) - 1)>>
             \o SplitOn(SubSeq(s, Min(hits) + 1, Len(s)), seps)

\* sep.join(parts)
RECURSIVE Join(_, _)
Join(parts, sep) ==
    IF Len(parts) = 0 THEN <<>>
    ELSE IF Len(parts) = 1 THEN parts[1]
    ELSE parts[1] \o sep \o Join(Tail(parts), sep)

\* int() of the digits s[i..j]
RECURSIVE DigitsVal(_, _, _)
DigitsVal(s, i, j) ==
    IF j < i THEN 0
    ELSE 10 * DigitsVal(s, i, j - 1)
         + ((CHOOSE k \in 1..10 : DigitChars[k] = s[j]) - 1)

\* str() of a natural number
RECURSIVE NatToStr(_)
NatToStr(n) ==
    IF n < 10 THEN <<DigitChars[n + 1]>>
    ELSE NatToStr(n \div 10) \o <<DigitChars[(n % 10) + 1]>>

(***************************************************************************)
(* Requirement miner: _extract_jd_requirements                             *)
(***************************************************************************)
W_skills == <<"s","k","i","l","l","s">>
W_required == <<"r","e","q","u","i","r","e","d">>
W_key == <<"k","e","y">>
W_technical == <<"t","e","c","h","n","i","c","a","l">>
W_qualifications == <<"q","u","a","l","i","f","i","c","a","t","i","o","n","s">>
W_responsibilities == <<"r","e","s","p","o","n","s","i","b","i","l","i","t","i","e","s">>
W_duties == <<"d","u","t","i","e","s">>
W_education == <<"e","d","u","c","a","t","i","o","n">>
W_academic == <<"a","c","a","d","e","m","i","c">>
W_background == <<"b","a","c","k","g","r","o","u","n","d">>
W_years == <<"y","e","a","r","s">>
W_yrs == <<"y","r","s">>
W_yr == <<"y","r">>
W_plus == <<"p","l","u","s">>
W_of == <<"o","f">>
W_experience == <<"e","x","p","e","r","i","e","n","c","e">>
W_exp == <<"e","x","p">>

\* the header alternatives of the three section patterns, in the order the
\* alternation tries them; the words of one alternative are joined by \s+
SkillHeaders == << <<W_required, W_skills>>, <<W_key, W_skills>>, <<W_skills>>,
                   <<W_technical, W_qualifications>> >>

ResponsibilityHeaders == << <<W_key, W_responsibilities>>, <<W_responsibilities>>,
                            <<W_duties>> >>

EducationHeaders == << <<W_education>>, <<W_qualifications>>,
                       <<W_academic, W_background>> >>

\* the position after header alternative words matched at position i, 0 if
\* it does not match there
RECURSIVE HeaderEnd(_, _, _)
HeaderEnd(s, i, words) ==
    IF ~LitAt(s, i, words[1]) THEN 0
    ELSE LET e == i + Len(words[1])
         IN  IF Len(words) = 1 THEN e
             ELSE IF SkipSpace(s, e) = e THEN 0
             ELSE HeaderEnd(s, SkipSpace(s, e), Tail(words))

\* \n[A-Z][a-zA-Z\s]+: at position q (the letter class is the whole
\* alphabet under re.IGNORECASE, and \s lets the run cross line ends)
HeadingAt(s, q) ==
    /\ q + 1 <= Len(s)
    /\ s[q] = "\n"
    /\ IsAlpha(s[q + 1])
    /\ LET r == RunEnd(s, q + 2, AlphaClass \cup SpaceClass)
       IN  r > q + 2 /\ r <= Len(s) /\ s[r] = ":"

\* (?:\n\n|\n[A-Z][a-zA-Z\s]+:|\Z) at position q
SectionEndAt(s, q) ==
    \/ q = Len(s) + 1
    \/ (q + 1 <= Len(s) /\ s[q] = "\n" /\ s[q + 1] = "\n")
    \/ HeadingAt(s, q)

\* the position after the first header alternative that matches at position i
FirstHeaderEnd(s, i, headers) ==
    LET h0 == Min({h \in 1..Len(headers) : HeaderEnd(s, i, headers[h]) # 0})
    IN  HeaderEnd(s, i, headers[h0])

\* :?\s*(.*?)(?:\n\n|\n[A-Z][a-zA-Z\s]+:|\Z) from position e, the end of the
\* header: the text of group 1
SectionFrom(s, e) ==
    LET p == SkipSpace(s, IF e <= Len(s) /\ s[e] = ":" THEN e + 1 ELSE e)
    IN  SubSeq(s, p, Min({j \in p..(Len(s) + 1) : SectionEndAt(s, j)}) - 1)

\* re.search of  (?:h1|h2|..):?\s*(.*?)(?:\n\n|\n[A-Z][a-zA-Z\s]+:|\Z)
\* under IGNORECASE | DOTALL: [found, text of group 1]
SectionSearch(s, headers) ==
    LET starts == {i \in 1..Len(s) :
                      \E h \in 1..Len(headers) : HeaderEnd(s, i, headers[h]) # 0}
    IN  IF starts = {} THEN [found |-> FALSE, group1 |-> <<>>]
        ELSE [found |-> TRUE,
              group1 |-> SectionFrom(s, FirstHeaderEnd(s, Min(starts), headers))]

\* group(1).replace('*','').replace('-','').replace(bullet,'').strip(), then
\* [x.strip() for x in re.split(r'[,;\n]', text) if x.strip()]
SectionItems(group1) ==
    LET text   == Strip(RemoveChars(group1, {"*", "-"}))
        pieces == SplitOn(text, {",", ";", "\n"})
        strips == [i \in 1..Len(pieces) |-> Strip(pieces[i])]
    IN  SelectSeq(strips, LAMBDA x : x # <<>>)

\* the position after the first of the literals alts that stands at position
\* i, 0 if none does
AltEnd(s, i, alts) ==
    LET hits == {a \in 1..Len(alts) : LitAt(s, i, alts[a])}
    IN  IF hits = {} THEN 0 ELSE i + Len(alts[Min(hits)])

\* (?:a1|a2|..)? at position i: the position after the alternation, or i
OptEnd(s, i, alts) == IF AltEnd(s, i, alts) = 0 THEN i ELSE AltEnd(s, i, alts)

\* (?:of\s+)? at position i
OptOfEnd(s, i) ==
    IF LitAt(s, i, W_of) /\ SkipSpace(s, i + 2) > i + 2
    THEN SkipSpace(s, i + 2)
    ELSE i

\* (\d+)\s*(?:\+|plus)?\s*(?:years|yrs?)\s+(?:of\s+)?(?:experience|exp)
\* matched at position i: the value of group 1, or -1
ExpPatternAt(s, i) ==
    IF ~(i <= Len(s) /\ IsDigit(s[i])) THEN -1
    ELSE LET d == RunEnd(s, i, DigitClass)
             u == SkipSpace(s, OptEnd(s, SkipSpace(s, d), << <<"+">>, W_plus >>))
             v == AltEnd(s, u, <<W_years, W_yrs, W_yr>>)
             w == SkipSpace(s, v)
         IN  IF v # 0 /\ w > v /\ LitAt(s, OptOfEnd(s, w), W_exp)
             THEN DigitsVal(s, i, d - 1)
             ELSE -1

\* re.search of the experience pattern: group 1 of the leftmost match, -1
\* when the pattern is nowhere in the text
ExpSearch(s) ==
    LET starts == {i \in 1..Len(s) : ExpPatternAt(s, i) # -1}
    IN  IF starts = {} THEN -1 ELSE ExpPatternAt(s, Min(starts))

_extract_jd_requirements(jd_text) ==
    LET jd_lower == ToLower(jd_text)
        skills_match == SectionSearch(jd_lower, SkillHeaders)
        responsibilities_match == SectionSearch(jd_lower, ResponsibilityHeaders)
        exp_match == ExpSearch(jd_lower)
        edu_match == SectionSearch(jd_lower, EducationHeaders)
    IN  [skills |-> IF skills_match.found
                    THEN SectionItems(skills_match.group1) ELSE <<>>,
         responsibilities |-> IF responsibilities_match.found
                              THEN SectionItems(responsibilities_match.group1)
                              ELSE <<>>,
         experience_years |-> IF exp_match # -1 THEN exp_match ELSE 0,
         education |-> IF edu_match.found
                       THEN SectionItems(edu_match.group1) ELSE <<>>]

(***************************************************************************)
(* Exact arithmetic for the float computations of score_resume             *)
(***************************************************************************)
RECURSIVE GCD(_, _)
GCD(a, b) == IF b = 0 THEN a ELSE GCD(b, a % b)

Abs(n) == IF n < 0 THEN -n ELSE n

\* the rational n/d, d > 0, in lowest terms
Rat(n, d) == LET g == GCD(Abs(n), d) IN [n |-> n \div g, d |-> d \div g]

RatAdd(a, b) == Rat(a.n * b.d + b.n * a.d, a.d * b.d)

RatMul(a, b) == Rat(a.n * b.n, a.d * b.d)

RatEq(a, b) == a.n * b.d = b.n * a.d

RatLe(a, b) == a.n * b.d <= b.n * a.d

\* int(x): truncation toward zero
RatTrunc(a) == IF a.n >= 0 THEN a.n \div a.d ELSE -((-a.n) \div a.d)

\* round(x), in hundredths: the nearest whole number, which is not what
\* score_resume asks for
RoundWhole(a) ==
    LET q == a.n \div a.d
        r == a.n - q * a.d
    IN  IF 2 * r < a.d THEN 100 * q
        ELSE IF 2 * r > a.d THEN 100 * (q + 1)
        ELSE IF q % 2 = 0 THEN 100 * q ELSE 100 * (q + 1)

\* round(x, 2), in hundredths: the nearest hundredth, a tie going to the
\* even one
Round2(a) ==
    LET q == (a.n * 100) \div a.d
        r == (a.n * 100) - q * a.d
    IN  IF 2 * r < a.d THEN q
        ELSE IF 2 * r > a.d THEN q + 1
        ELSE IF q % 2 = 0 THEN q ELSE q + 1

(***************************************************************************)
(* Weighted scorer: score_resume                                           *)
(***************************************************************************)
\* the weights of the four sub-scores, in per cent
SkillWeight == 40

ExperienceWeight == 30

ResponsibilityWeight == 20

EducationWeight == 10

\* max_sim > 0.6, in thousandths
MatchThreshold == 600

\* the neutral responsibility score
NeutralResponsibility == 50

Weighted(score, weight) == RatMul(score, Rat(weight, 100))

\* (\d+)\s+years under re.IGNORECASE at position i: group 1, or -1
YearsPatternAt(s, i) ==
    IF ~(i <= Len(s) /\ IsDigit(s[i])) THEN -1
    ELSE LET d == RunEnd(s, i, DigitClass)
             e == SkipSpace(s, d)
         IN  IF e > d /\ LitAt(s, e, W_years) THEN DigitsVal(s, i, d - 1) ELSE -1

YearsSearch(s) ==
    LET starts == {i \in 1..Len(s) : YearsPatternAt(s, i) # -1}
    IN  IF starts = {} THEN -1 ELSE YearsPatternAt(s, Min(starts))

\* a comparison of the skill lists that counts a best similarity of exactly
\* the threshold as a match
MatchedSkillsInclusive(jd_required_skills, resume_skills, cosine_scores) ==
    LET matched_jd_skills ==
            Cardinality({i \in 1..Len(jd_required_skills) :
                Max({cosine_scores[i, j] : j \in 1..Len(resume_skills)})
                    >= MatchThreshold})
        score == Rat(matched_jd_skills * 100, Len(jd_required_skills))
    IN  [score |-> score,
         encoded |-> <<jd_required_skills, resume_skills>>,
         reasoning |-> <<"Matched ", ToString(matched_jd_skills), "/",
                         ToString(Len(jd_required_skills)),
                         " key skills (", ToString(RatTrunc(score)),
                         "%).">>]

\* the branch of section 1 that compares the two skill lists:
\* cosine_scores[i, j] is the similarity of the i-th required skill and the
\* j-th resume skill
MatchedSkills(jd_required_skills, resume_skills, cosine_scores) ==
    LET matched_jd_skills ==
            Cardinality({i \in 1..Len(jd_required_skills) :
                Max({cosine_scores[i, j] : j \in 1..Len(resume_skills)})
                    > MatchThreshold})
        score == Rat(matched_jd_skills * 100, Len(jd_required_skills))
    IN  [score |-> score,
         encoded |-> <<jd_required_skills, resume_skills>>,
         reasoning |-> <<"Matched ", ToString(matched_jd_skills), "/",
                         ToString(Len(jd_required_skills)),
                         " key skills (", ToString(RatTrunc(score)),
                         "%).">>]

\* a skill section that embeds and compares even when the JD requires no
\* skill: nothing is matched, and nothing is scored
SkillSectionWithoutDefault(jd_required_skills, resume_skills, cosine_scores) ==
    IF jd_required_skills # <<>> /\ Len(resume_skills) > 0
    THEN MatchedSkills(jd_required_skills, resume_skills, cosine_scores)
    ELSE [score |-> Rat(0, 1),
          encoded |-> <<jd_required_skills, resume_skills>>,
          reasoning |-> <<"No skills found in resume to match against JD skills.">>]

\* a skill section that is neutral about a resume without skills
SkillSectionNeutral(jd_required_skills, resume_skills, cosine_scores) ==
    IF jd_required_skills # <<>>
    THEN IF Len(resume_skills) > 0
         THEN MatchedSkills(jd_required_skills, resume_skills, cosine_scores)
         ELSE [score |-> Rat(50, 1),
               encoded |-> <<jd_required_skills, resume_skills>>,
               reasoning |-> <<"No skills found in resume to match against JD skills.">>]
    ELSE [score |-> Rat(100, 1),
          encoded |-> <<>>,
          reasoning |-> <<"No specific skills required in JD.">>]

\* section 1, skill matching
SkillSection(jd_required_skills, resume_skills, cosine_scores) ==
    IF jd_required_skills # <<>>
    THEN IF Len(resume_skills) > 0
         THEN MatchedSkills(jd_required_skills, resume_skills, cosine_scores)
         ELSE [score |-> Rat(0, 1),
               encoded |-> <<jd_required_skills, resume_skills>>,
               reasoning |-> <<"No skills found in resume to match against JD skills.">>]
    ELSE [score |-> Rat(100, 1),
          encoded |-> <<>>,
          reasoning |-> <<"No specific skills required in JD.">>]

\* the years the scorer reads out of the resume's experience signals
ExperienceYearsInResume(experience) ==
    IF experience # <<>>
    THEN LET exp_match == YearsSearch(Join(experience, <<" ">>))
         IN  IF exp_match # -1 THEN exp_match ELSE 0
    ELSE 0

\* an experience section without the cap at the required years
ExperienceSectionUncapped(jd_min_experience_years, experience_years_in_resume) ==
    IF jd_min_experience_years > 0
    THEN [score |-> Rat(experience_years_in_resume * 100, jd_min_experience_years),
          reasoning |-> <<"Has ", ToString(experience_years_in_resume),
                          " years experience (requires ",
                          ToString(jd_min_experience_years), ").">>]
    ELSE [score |-> Rat(100, 1),
          reasoning |-> <<"No minimum experience required in JD.">>]

\* an experience section that reads a missing minimum as zero years
\* required of a resume that shows experience
ExperienceSectionZeroRequired(jd_min_experience_years, experience_years_in_resume) ==
    IF experience_years_in_resume >= jd_min_experience_years
       /\ (jd_min_experience_years > 0 \/ experience_years_in_resume > 0)
    THEN [score |-> Rat(100, 1),
          reasoning |-> <<"Meets/Exceeds ", ToString(jd_min_experience_years),
                          " years experience (",
                          ToString(experience_years_in_resume),
                          " years found).">>]
    ELSE [score |-> IF jd_min_experience_years > 0
                    THEN Rat(experience_years_in_resume * 100,
                             jd_min_experience_years)
                    ELSE Rat(0, 1),
          reasoning |-> <<"Has ", ToString(experience_years_in_resume),
                          " years experience (requires ",
                          ToString(jd_min_experience_years), ").">>]

\* section 2, experience years
ExperienceSection(jd_min_experience_years, experience_years_in_resume) ==
    IF jd_min_experience_years > 0
    THEN IF experience_years_in_resume >= jd_min_experience_years
         THEN [score |-> Rat(100, 1),
               reasoning |-> <<"Meets/Exceeds ", ToString(jd_min_experience_years),
                               " years experience (",
                               ToString(experience_years_in_resume),
                               " years found).">>]
         ELSE [score |-> Rat(experience_years_in_resume * 100,
                             jd_min_experience_years),
               reasoning |-> <<"Has ", ToString(experience_years_in_resume),
                               " years experience (requires ",
                               ToString(jd_min_experience_years), ").">>]
    ELSE [score |-> Rat(100, 1),
          reasoning |-> <<"No minimum experience required in JD.">>]

\* section 3, responsibilities against the raw text: sim is the cosine
\* similarity of the two embeddings, in thousandths
ResponsibilitySection(jd_responsibilities, resume_summary_or_raw, sim) ==
    IF jd_responsibilities # <<>> /\ resume_summary_or_raw # <<>>
    THEN LET score == Rat(sim * 100, 1000)
         IN  [score |-> score,
              encoded |-> <<Join(jd_responsibilities, <<" ">>), resume_summary_or_raw>>,
              reasoning |-> <<"Overall resume content aligns with responsibilities (",
                              ToString(RatTrunc(score)), "%).">>]
    ELSE [score |-> Rat(NeutralResponsibility, 1),
          encoded |-> <<>>,
          reasoning |-> <<"Cannot assess responsibilities due to missing JD or resume content.">>]

\* an education section with partial credit for a resume that names none
\* of the required terms
EducationSectionPartial(jd_required_education, education) ==
    IF jd_required_education # <<>>
    THEN LET resume_education_text == Join(education, <<" ">>)
             score ==
                 IF \E k \in 1..Len(jd_required_education) :
                        Contains(ToLower(resume_education_text),
                                 ToLower(jd_required_education[k]))
                 THEN Rat(100, 1) ELSE Rat(50, 1)
         IN  [score |-> score,
              reasoning |-> <<"Education matches JD requirements (",
                              ToString(RatTrunc(score)), "%).">>]
    ELSE [score |-> Rat(100, 1),
          reasoning |-> <<"No specific education required in JD.">>]

\* section 4, education
EducationSection(jd_required_education, education) ==
    IF jd_required_education # <<>>
    THEN LET resume_education_text == Join(education, <<" ">>)
             matched_edu ==
                 IF \E k \in 1..Len(jd_required_education) :
                        Contains(ToLower(resume_education_text),
                                 ToLower(jd_required_education[k]))
                 THEN 1 ELSE 0
             score == Rat(matched_edu * 100, 1)
         IN  [score |-> score,
              reasoning |-> <<"Education matches JD requirements (",
                              ToString(RatTrunc(score)), "%).">>]
    ELSE [score |-> Rat(100, 1),
          reasoning |-> <<"No specific education required in JD.">>]

\* a join that puts the sentences one after the other with nothing between
RECURSIVE JoinSentencesUnspaced(_)
JoinSentencesUnspaced(parts) ==
    IF Len(parts) = 0 THEN <<>>
    ELSE parts[1] \o JoinSentencesUnspaced(Tail(parts))

\* " ".join(reasoning_parts), a sentence being the sequence of its pieces
RECURSIVE JoinSentences(_)
JoinSentences(parts) ==
    IF Len(parts) = 0 THEN <<>>
    ELSE IF Len(parts) = 1 THEN parts[1]
    ELSE parts[1] \o <<" ">> \o JoinSentences(Tail(parts))

\* score_resume once the requirements are mined: every local of the call
ScoreAgainst(parsed_resume_data, jd_requirements, cosine_scores, resp_sim) ==
    LET skill == SkillSection(jd_requirements.skills,
                              parsed_resume_data.skills, cosine_scores)
        total1 == RatAdd(Rat(0, 1), Weighted(skill.score, SkillWeight))
        years == ExperienceYearsInResume(parsed_resume_data.experience)
        experience == ExperienceSection(jd_requirements.experience_years, years)
        total2 == RatAdd(total1, Weighted(experience.score, ExperienceWeight))
        responsibility == ResponsibilitySection(jd_requirements.responsibilities,
                                                parsed_resume_data.raw_text, resp_sim)
        total3 == RatAdd(total2, Weighted(responsibility.score, ResponsibilityWeight))
        education == EducationSection(jd_requirements.education,
                                      parsed_resume_data.education)
        total_score == RatAdd(total3, Weighted(education.score, EducationWeight))
        reasoning_parts == <<skill.reasoning, experience.reasoning,
                             responsibility.reasoning, education.reasoning>>
    IN  [jd_requirements |-> jd_requirements,
         skill_match_score |-> skill.score,
         experience_years_in_resume |-> years,
         experience_score |-> experience.score,
         responsibility_score |-> responsibility.score,
         education_score |-> education.score,
         total_score |-> total_score,
         final_score |-> Round2(total_score),
         reasoning_parts |-> reasoning_parts,
         overall_reasoning |-> JoinSentences(reasoning_parts),
         skill_encodes |-> skill.encoded,
         responsibility_encodes |-> responsibility.encoded]

score_resume(parsed_resume_data, job_description_text, cosine_scores, resp_sim) ==
    ScoreAgainst(parsed_resume_data,
                 _extract_jd_requirements(job_description_text),
                 cosine_scores, resp_sim)

(***************************************************************************)
(* Extractor: load_common_skills and parse_resume_info                     *)
(***************************************************************************)
\* Python's None where a text may stand
None == <<"None">>

\* " years experience"
T_years_experience ==
    <<" ","y","e","a","r","s"," ","e","x","p","e","r","i","e","n","c","e">>

W_at == <<"@">>
W_university == <<"u","n","i","v","e","r","s","i","t","y">>
W_institute == <<"i","n","s","t","i","t","u","t","e">>
W_college == <<"c","o","l","l","e","g","e">>
W_school == <<"s","c","h","o","o","l">>
W_bachelor == <<"b","a","c","h","e","l","o","r">>
W_master == <<"m","a","s","t","e","r">>
W_doctor == <<"d","o","c","t","o","r">>
W_eng == <<"e","n","g",".">>
W_in == <<"i","n">>

\* len(s.split()): the number of whitespace-separated words
WordCount(s) ==
    Cardinality({i \in 1..Len(s) :
        ~IsSpace(s[i]) /\ (i = 1 \/ IsSpace(s[i - 1]))})

\* re.search(r'\d{10}', s)
HasTenDigits(s) ==
    \E i \in 1..Len(s) :
        i + 9 <= Len(s) /\ \A k \in 0..9 : IsDigit(s[i + k])

\* [line.strip() for line in text.split('\n') if line.strip()]
NonBlankLines(text) ==
    LET lines == SplitOn(text, {"\n"})
    IN  SelectSeq([i \in 1..Len(lines) |-> Strip(lines[i])], LAMBDA l : l # <<>>)

\* a fallback that looks at every non-blank line
FallbackNameAnyLine(text) ==
    LET lines == NonBlankLines(text)
        ok == {i \in 1..Len(lines) :
                  /\ ~Contains(lines[i], W_at)
                  /\ ~HasTenDigits(lines[i])
                  /\ WordCount(lines[i]) < 5}
    IN  IF ok = {} THEN None ELSE lines[Min(ok)]

\* the fallback of the name heuristic: the first of the first three
\* non-blank lines that holds no '@', no run of ten digits and fewer than
\* five words
FallbackName(text) ==
    LET lines == NonBlankLines(text)
        ok == {i \in 1..Len(lines) :
                  /\ i <= 3
                  /\ ~Contains(lines[i], W_at)
                  /\ ~HasTenDigits(lines[i])
                  /\ WordCount(lines[i]) < 5}
    IN  IF ok = {} THEN None ELSE lines[Min(ok)]

\* section 1 of parse_resume_info: ents is doc.ents, in document order
ExtractName(text, ents) ==
    LET persons == {i \in 1..Len(ents) :
                       ents[i].label_ = "PERSON" /\ WordCount(ents[i].text) >= 2}
    IN  IF persons # {} THEN ents[Min(persons)].text ELSE FallbackName(text)

\* [a-zA-Z0-9._%+-]
IsEmailLocalChar(c) == IsAlpha(c) \/ IsDigit(c) \/ c \in {".", "_", "%", "+", "-"}

\* [a-zA-Z0-9.-]
EmailDomainClass == AlphaClass \cup DigitClass \cup {".", "-"}

\* the end (exclusive) of [a-zA-Z0-9.-]+\.[a-zA-Z]{2,} matched after the '@'
\* at position a, 0 if it does not match: the greedy domain run gives
\* characters back up to its last dot that two letters follow
EmailDomainEnd(s, a) ==
    LET e == RunEnd(s, a + 1, EmailDomainClass)
        dots == {k \in (a + 2)..(e - 1) :
                    /\ s[k] = "."
                    /\ RunEnd(s, k + 1, AlphaClass) >= k + 3}
    IN  IF dots = {} THEN 0 ELSE RunEnd(s, Max(dots) + 1, AlphaClass)

\* re.findall(email_pattern, text)[0], None when there is no match
ExtractEmail(s) ==
    LET ats == {a \in 2..Len(s) :
                   /\ s[a] = "@"
                   /\ IsEmailLocalChar(s[a - 1])
                   /\ EmailDomainEnd(s, a) # 0}
    IN  IF ats = {} THEN None
        ELSE LET a == Min(ats)
                 i == Min({j \in 1..(a - 1) :
                              \A k \in j..(a - 1) : IsEmailLocalChar(s[k])})
             IN  SubSeq(s, i, EmailDomainEnd(s, a) - 1)

\* n digits stand at position i
DigitsAt(s, i, n) == i + n - 1 <= Len(s) /\ \A k \in 0..(n - 1) : IsDigit(s[i + k])

\* the rest of the phone pattern after the optional country code, at
\* position a:  [-. (]*(\d{3})[-. )]*(\d{3})[-. ]*(\d{4})(?: *x(\d+))?
\* gives groups 2..5 joined, or None
PhoneCoreAt(s, a) ==
    LET b == RunEnd(s, a, {"-", ".", " ", "("})
        d == RunEnd(s, b + 3, {"-", ".", " ", ")"})
        f == RunEnd(s, d + 3, {"-", ".", " "})
        g == f + 4
        x == RunEnd(s, g, {" "})
        ext == IF x + 1 <= Len(s) /\ s[x] = "x" /\ IsDigit(s[x + 1])
               THEN SubSeq(s, x + 1, RunEnd(s, x + 1, DigitClass) - 1)
               ELSE <<>>
    IN  IF DigitsAt(s, b, 3) /\ DigitsAt(s, d, 3) /\ DigitsAt(s, f, 4)
        THEN SubSeq(s, b, b + 2) \o SubSeq(s, d, d + 2) \o SubSeq(s, f, f + 3) \o ext
        ELSE None

\* the phone pattern matched at position i, its groups joined, or None: the
\* country code (?:\+?(\d{1,3}))? is tried with three, two, one digits and
\* then left out
PhoneAt(s, i) ==
    LET c == IF i <= Len(s) /\ s[i] = "+" THEN i + 1 ELSE i
        ks == {k \in 1..3 : DigitsAt(s, c, k) /\ PhoneCoreAt(s, c + k) # None}
    IN  IF ks # {}
        THEN SubSeq(s, c, c + Max(ks) - 1) \o PhoneCoreAt(s, c + Max(ks))
        ELSE PhoneCoreAt(s, i)

\* ''.join(re.findall(phone_pattern, text)[0]), None when there is no match
ExtractPhone(s) ==
    LET starts == {i \in 1..Len(s) : PhoneAt(s, i) # None}
    IN  IF starts = {} THEN None ELSE PhoneAt(s, Min(starts))

\* load_common_skills: the file is a sequence of lines, or Missing; the
\* second field is what the function printed
Missing == "missing"

load_common_skills(file) ==
    IF file = Missing
    THEN [skills |-> {}, printed |-> <<"Skills file not found">>]
    ELSE [skills |-> {ToLower(Strip(file[i])) : i \in 1..Len(file)},
          printed |-> <<>>]

\* the orders list(set) and the stable sort by descending length may leave
\* the skills in
RECURSIVE Orderings(_)
Orderings(S) ==
    IF S = {} THEN {<<>>}
    ELSE UNION {{<<x>> \o o : o \in Orderings(S \ {x})} : x \in S}

SortedByLengthDesc(S) ==
    {o \in Orderings(S) : \A i \in 1..(Len(o) - 1) : Len(o[i]) >= Len(o[i + 1])}

\* a skill scan that keeps only the longest entry of overlapping matches: an
\* entry contained in a longer matching entry is dropped
FoundSkillsLongestOnly(text, known_skills) ==
    LET found == {known_skills[n] : n \in {m \in 1..Len(known_skills) :
                     Contains(ToLower(text), ToLower(known_skills[m]))}}
    IN  {e \in found : ~\E longer \in found :
                            Len(longer) > Len(e) /\ Contains(longer, e)}

\* section 3: the vocabulary entries that are substrings of the lowered text
FoundSkills(text, known_skills) ==
    {known_skills[n] : n \in {m \in 1..Len(known_skills) :
        \E i \in 1..(Len(text) + 1) :
            /\ i + Len(known_skills[m]) - 1 <= Len(text)
            /\ \A k \in 1..Len(known_skills[m]) :
                   LowerChar(text[i + k - 1]) = LowerChar(known_skills[m][k])}}

\* (\d+)\s*(?:years|yrs?)\s+(?:of)?\s*(?:experience|exp|background) at
\* position i of the lowered text: the digits of group 1, or None
ResumeExpAt(s, i) ==
    IF ~(i <= Len(s) /\ IsDigit(s[i])) THEN None
    ELSE LET d == RunEnd(s, i, DigitClass)
             u == SkipSpace(s, d)
             v == IF LitAt(s, u, W_years) THEN u + 5
                  ELSE IF LitAt(s, u, W_yrs) THEN u + 3
                  ELSE IF LitAt(s, u, W_yr) THEN u + 2
                  ELSE 0
             w == SkipSpace(s, v)
             x == IF LitAt(s, w, W_of) THEN SkipSpace(s, w + 2) ELSE w
         IN  IF v # 0 /\ w > v /\ (LitAt(s, x, W_exp) \/ LitAt(s, x, W_background))
             THEN SubSeq(s, i, d - 1)
             ELSE None

\* " yrs experience"
T_yrs_experience ==
    <<" ","y","r","s"," ","e","x","p","e","r","i","e","n","c","e">>

\* an extractor that stores the signal with the unit abbreviated
ExtractExperienceAbbreviated(text) ==
    LET text_lower == ToLower(text)
        starts == {i \in 1..Len(text_lower) : ResumeExpAt(text_lower, i) # None}
    IN  IF starts = {} THEN <<>>
        ELSE <<ResumeExpAt(text_lower, Min(starts)) \o T_yrs_experience>>

\* section 4: the experience signals
ExtractExperience(text) ==
    LET text_lower == ToLower(text)
        starts == {i \in 1..Len(text_lower) : ResumeExpAt(text_lower, i) # None}
    IN  IF starts = {} THEN <<>>
        ELSE <<ResumeExpAt(text_lower, Min(starts)) \o T_years_experience>>

\* (?:keyword)\s*(.*?)(\n\n|$) searched in the lowered text under
\* IGNORECASE | DOTALL: group(0), the text from the keyword to the first
\* blank line (included) or to the end ($ also stands before a final \n)
KeywordSection(s, keyword) ==
    LET i0 == Min({i \in 1..Len(s) : LitAt(s, i, keyword)})
        p  == SkipSpace(s, i0 + Len(keyword))
        q  == Min({j \in p..(Len(s) + 1) :
                      \/ j = Len(s) + 1
                      \/ (j = Len(s) /\ s[j] = "\n")
                      \/ (j + 1 <= Len(s) /\ s[j] = "\n" /\ s[j + 1] = "\n")})
    IN  IF q + 1 <= Len(s) THEN SubSeq(s, i0, q + 1) ELSE SubSeq(s, i0, q - 1)

\* c1\.?\s?c2 at position i: the position after it, 0 if it does not match
AbbrevEnd(s, i, c1, c2) ==
    IF ~LitAt(s, i, c1) THEN 0
    ELSE LET a == i + Len(c1)
             b == IF a <= Len(s) /\ s[a] = "." THEN a + 1 ELSE a
             c == IF b <= Len(s) /\ IsSpace(s[b]) THEN b + 1 ELSE b
         IN  IF LitAt(s, c, c2) THEN c + Len(c2) ELSE 0

\* (?:b\.?\s?s|m\.?\s?s|b\.?\s?a|ph\.?\s?d|bachelor|master|doctor|eng\.) at
\* position i: the position after the first alternative that matches, 0 if
\* none does
DegreeWordEnd(s, i) ==
    LET ends == <<AbbrevEnd(s, i, <<"b">>, <<"s">>),
                  AbbrevEnd(s, i, <<"m">>, <<"s">>),
                  AbbrevEnd(s, i, <<"b">>, <<"a">>),
                  AbbrevEnd(s, i, <<"p","h">>, <<"d">>),
                  IF LitAt(s, i, W_bachelor) THEN i + Len(W_bachelor) ELSE 0,
                  IF LitAt(s, i, W_master) THEN i + Len(W_master) ELSE 0,
                  IF LitAt(s, i, W_doctor) THEN i + Len(W_doctor) ELSE 0,
                  IF LitAt(s, i, W_eng) THEN i + Len(W_eng) ELSE 0>>
        hits == {k \in 1..Len(ends) : ends[k] # 0}
    IN  IF hits = {} THEN 0 ELSE ends[Min(hits)]

IsAlphaOrSpace(c) == IsAlpha(c) \/ IsSpace(c)

\* \s+([a-zA-Z\s]+) from position a: the text of the group, None if it does
\* not match; the greedy \s+ gives one character back when nothing of the
\* class follows it
SpacedWords(s, a) ==
    LET w == SkipSpace(s, a)
    IN  IF w = a THEN None
        ELSE IF w <= Len(s) /\ IsAlpha(s[w])
             THEN SubSeq(s, w, RunEnd(s, w, AlphaClass \cup SpaceClass) - 1)
        ELSE IF w - a >= 2 THEN <<s[w - 1]>>
        ELSE None

\* the degree pattern matched at position i: group 1, or None
DegreeAt(s, i) ==
    LET e == DegreeWordEnd(s, i)
        js == IF e = 0 THEN {}
              ELSE {j \in e..Len(s) :
                       /\ \A k \in e..(j - 1) : s[k] \notin {".", "\n"}
                       /\ (LitAt(s, j, W_in) \/ LitAt(s, j, W_of))
                       /\ SpacedWords(s, j + 2) # None}
    IN  IF js = {} THEN None ELSE SpacedWords(s, Min(js) + 2)

UniversityWords == <<W_university, W_institute, W_college, W_school>>

\* (?:university|institute|college|school)\s+of\s+([a-zA-Z\s]+) at
\* position i: group 1, or None
UniversityOfAt(s, i) ==
    LET hits == {k \in 1..4 : LitAt(s, i, UniversityWords[k])}
    IN  IF hits = {} THEN None
        ELSE LET a == i + Len(UniversityWords[Min(hits)])
                 w == SkipSpace(s, a)
             IN  IF w > a /\ LitAt(s, w, W_of) THEN SpacedWords(s, w + 2) ELSE None

\* ([a-zA-Z\s]+(?:university|institute|college)) at position i: group 2, or
\* None; the greedy run gives characters back up to the last keyword in it
NamedUniversityAt(s, i) ==
    IF ~(i <= Len(s) /\ IsAlphaOrSpace(s[i])) THEN None
    ELSE LET r == RunEnd(s, i, AlphaClass \cup SpaceClass)
             ks == {k \in (i + 1)..(r - 1) :
                       \E n \in 1..3 : LitAt(s, k, UniversityWords[n])}
         IN  IF ks = {} THEN None
             ELSE LET k == Max(ks)
                      n == CHOOSE n \in 1..3 : LitAt(s, k, UniversityWords[n])
                  IN  SubSeq(s, i, k + Len(UniversityWords[n]) - 1)

\* the university pattern matched at position i: the group that is not
\* empty, or None
UniversityAt(s, i) ==
    IF UniversityOfAt(s, i) # None THEN UniversityOfAt(s, i)
    ELSE NamedUniversityAt(s, i)

\* [a-zA-Z0-9_], the characters \b tells apart from the others
IsWordChar(c) == IsAlpha(c) \/ IsDigit(c) \/ c = "_"

\* \b(?:19|20)\d{2}\b at position i
YearAt(s, i) ==
    /\ (LitAt(s, i, <<"1","9">>) \/ LitAt(s, i, <<"2","0">>))
    /\ DigitsAt(s, i + 2, 2)
    /\ (i = 1 \/ ~IsWordChar(s[i - 1]))
    /\ (i + 4 > Len(s) \/ ~IsWordChar(s[i + 4]))

\* re.findall(degree_pattern, ..)[0]: group 1 of the leftmost match, or None
FirstDegree(s) ==
    LET starts == {i \in 1..Len(s) : DegreeAt(s, i) # None}
    IN  IF starts = {} THEN None ELSE DegreeAt(s, Min(starts))

\* re.findall(university_pattern, ..)[0]: the group of the leftmost match
\* that is not empty, or None
FirstUniversity(s) ==
    LET starts == {i \in 1..Len(s) : UniversityAt(s, i) # None}
    IN  IF starts = {} THEN None ELSE UniversityAt(s, Min(starts))

\* "Degree: "
T_Degree == <<"D","e","g","r","e","e",":"," ">>

\* "University: "
T_University == <<"U","n","i","v","e","r","s","i","t","y",":"," ">>

\* "Year: "
T_Year == <<"Y","e","a","r",":"," ">>

EducationKeywords == <<W_education, W_academic \o <<" ">> \o W_background,
                       W_qualifications>>

\* section 5: the education signals, read in the section of the first
\* keyword the text holds
ExtractEducation(text) ==
    LET text_lower == ToLower(text)
        present == {k \in 1..Len(EducationKeywords) :
                       Contains(text_lower, EducationKeywords[k])}
    IN  IF present = {} THEN <<>>
        ELSE LET section == KeywordSection(text_lower, EducationKeywords[Min(present)])
                 deg == FirstDegree(section)
                 uni == FirstUniversity(section)
                 years == {i \in 1..Len(section) : YearAt(section, i)}
             IN  (IF deg # None THEN <<T_Degree \o Strip(deg)>> ELSE <<>>)
                 \o (IF uni # None THEN <<T_University \o Strip(uni)>> ELSE <<>>)
                 \o (IF years # {}
                     THEN <<T_Year \o SubSeq(section, Min(years), Min(years) + 3)>>
                     ELSE <<>>)

\* parse_resume_info: ents is what the entity recogniser found in the text,
\* known_skills the loaded vocabulary, skills the order list(found_skills)
\* came out in
parse_resume_info(resume_text, ents, known_skills, skills) ==
    [name |-> ExtractName(resume_text, ents),
     email |-> ExtractEmail(resume_text),
     phone |-> ExtractPhone(resume_text),
     skills |-> skills,
     experience |-> ExtractExperience(resume_text),
     education |-> ExtractEducation(resume_text),
     raw_text |-> resume_text]

(***************************************************************************)
(* The inputs of the scorer                                                *)
(***************************************************************************)
\* a job description is made of at most MaxJdParts of these lines
MaxJdParts == 2

\* "Skills: python, aws\n"
JdSkillsLine ==
    <<"S","k","i","l","l","s",":"," ","p","y","t","h","o","n",","," ","a","w","s","\n">>

\* "Required skills:\nsql\naws\ngo\n"
JdSkillItems ==
    <<"R","e","q","u","i","r","e","d"," ","s","k","i","l","l","s",":","\n","s","q","l","\n","a","w","s","\n","g","o","\n">>

\* "3+ years of experience\n"
JdExperienceLine ==
    <<"3","+"," ","y","e","a","r","s"," ","o","f"," ","e","x","p","e","r","i","e","n","c","e","\n">>

\* "3+ years of experience\nskills in python\n"
JdRequirementLines ==
    <<"3","+"," ","y","e","a","r","s"," ","o","f"," ","e","x","p","e","r","i","e","n","c","e","\n","s","k","i","l","l","s"," ","i","n"," ","p","y","t","h","o","n","\n">>

\* "Education: Computer Science\n"
JdEducationLine ==
    <<"E","d","u","c","a","t","i","o","n",":"," ","C","o","m","p","u","t","e","r"," ","S","c","i","e","n","c","e","\n">>

\* "Duties: build 2 apis\n"
JdDutiesLine ==
    <<"D","u","t","i","e","s",":"," ","b","u","i","l","d"," ","2"," ","a","p","i","s","\n">>

\* "\n"
JdBlankLine ==
    <<"\n">>

JdFragments == <<JdSkillsLine, JdSkillItems, JdExperienceLine, JdRequirementLines,
                 JdEducationLine, JdDutiesLine, JdBlankLine>>

RECURSIVE Concat(_)
Concat(parts) == IF Len(parts) = 0 THEN <<>> ELSE parts[1] \o Concat(Tail(parts))

JdTexts ==
    {Concat([i \in DOMAIN f |-> JdFragments[f[i]]]) :
        f \in UNION {[1..n -> 1..Len(JdFragments)] : n \in 0..MaxJdParts}}

\* the years a resume's experience signal may state
MaxYears == 4

T_python == <<"p","y","t","h","o","n">>

T_sql == <<"s","q","l">>

\* "Degree: computer science"
T_degree ==
    <<"D","e","g","r","e","e",":"," ","c","o","m","p","u","t","e","r"," ","s","c","i","e","n","c","e">>

\* "Year: 2018"
T_year ==
    <<"Y","e","a","r",":"," ","2","0","1","8">>

\* "Python dev"
T_raw ==
    <<"P","y","t","h","o","n"," ","d","e","v">>

\* the records parse_resume_info hands to the scorer
CandidateRecords ==
    {[name |-> None, skills |-> sk, experience |-> ex, education |-> ed,
      raw_text |-> rt] :
        sk \in {<<>>, <<T_python>>, <<T_python, T_sql>>},
        ex \in {<<>>} \cup {<<NatToStr(y) \o T_years_experience>> : y \in 0..MaxYears},
        ed \in {<<>>, <<T_degree, T_year>>},
        rt \in {<<>>, T_raw}}

\* what util.cos_sim may give for two different texts, in thousandths
SkillSims == {MatchThreshold, MatchThreshold + 1}

RespSims == {-1000, -255, 333, 1000}

\* the similarity matrices the embedding service may return for the two
\* skill lists: a text has similarity 1 to itself, and a resume skill has
\* one of SkillSims to the texts that differ from it
CosineMatrices(jd_skills, resume_skills) ==
    {[p \in (1..Len(jd_skills)) \X (1..Len(resume_skills)) |->
         IF jd_skills[p[1]] = resume_skills[p[2]] THEN 1000 ELSE col[p[2]]] :
        col \in [1..Len(resume_skills) -> SkillSims]}

(***************************************************************************)
(* The inputs of the extractor                                             *)
(***************************************************************************)
\* a resume is made of at most MaxResumeParts of these parts, each at most
\* once
MaxResumeParts == 4

\* "John Doe\n"
ResumeNameLine ==
    <<"J","o","h","n"," ","D","o","e","\n">>

\* "j.doe@x.io\n"
ResumeEmailLine ==
    <<"j",".","d","o","e","@","x",".","i","o","\n">>

\* "+91 9876543210\n"
ResumePhoneLine ==
    <<"+","9","1"," ","9","8","7","6","5","4","3","2","1","0","\n">>

\* "5 years of experience in Machine Learning\nEducation: B.S in Physics\n"
ResumeBody ==
    <<"5"," ","y","e","a","r","s"," ","o","f"," ","e","x","p","e","r","i","e","n","c","e"," ","i","n"," ","M","a","c","h","i","n","e"," ","L","e","a","r","n","i","n","g","\n","E","d","u","c","a","t","i","o","n",":"," ","B",".","S"," ","i","n"," ","P","h","y","s","i","c","s","\n">>

\* "\n"
ResumeBlankLine ==
    <<"\n">>

ResumeFragments == <<ResumeNameLine, ResumeEmailLine, ResumePhoneLine, ResumeBody,
                     ResumeBlankLine>>

ResumeTexts ==
    {Concat([i \in DOMAIN f |-> ResumeFragments[f[i]]]) :
        f \in {g \in UNION {[1..n -> 1..Len(ResumeFragments)] : n \in 0..MaxResumeParts} :
                  \A i, j \in DOMAIN g : g[i] = g[j] => i = j}}

\* "John Doe"
T_John_Doe == <<"J","o","h","n"," ","D","o","e">>

\* "John"
T_John == <<"J","o","h","n">>

\* "Machine Learning"
T_Machine_Learning == <<"M","a","c","h","i","n","e"," ","L","e","a","r","n","i","n","g">>

\* what the entity recogniser may report
EntityLists ==
    {<<>>,
     <<[label_ |-> "PERSON", text |-> T_John_Doe]>>,
     <<[label_ |-> "PERSON", text |-> T_John]>>,
     <<[label_ |-> "ORG", text |-> T_Machine_Learning],
       [label_ |-> "PERSON", text |-> T_John_Doe]>>,
     <<[label_ |-> "PERSON", text |-> T_John],
       [label_ |-> "PERSON", text |-> T_John_Doe]>>}

\* doc.ents for a text: the entities are spans of the text
EntitiesIn(text) ==
    {ents \in EntityLists : \A i \in 1..Len(ents) : Contains(text, ents[i].text)}

\* the lines of data/common_skills.txt: "Python\n", "SQL\n",
\* "Machine Learning\n", "learning\n"
SkillsFileLines ==
    <<<<"P","y","t","h","o","n","\n">>,
      <<"S","Q","L","\n">>,
      <<"M","a","c","h","i","n","e"," ","L","e","a","r","n","i","n","g","\n">>,
      <<"l","e","a","r","n","i","n","g","\n">>>>

SkillsFiles == {Missing, SkillsFileLines}

(***************************************************************************)
(* State                                                                   *)
(***************************************************************************)
VARIABLES
    skills_file,             \* data/common_skills.txt: its lines, or Missing
    KNOWN_SKILLS,            \* the vocabulary loaded when the module is imported
    printed,                 \* what load_common_skills printed
    resume_raw_text,         \* the text given to parse_resume_info
    doc_ents,                \* the entities nlp(resume_text) reported
    extracted_data,          \* the record parse_resume_info returned
    parse_pc,                \* "import", "ready", "returned"; "off" otherwise
    job_description,         \* the job description of the request
    parsed_data,             \* the candidate record given to score_resume
    skill_cos_sim,           \* what util.cos_sim returned for the skill lists
    responsibility_cos_sim,  \* what util.cos_sim returned for the responsibilities
    scored,                  \* the locals and the result of score_resume
    score_pc,                \* "idle", "returned"; "off" otherwise
    resume_files,            \* request.files.getlist('resume_files')
    handler_pc,              \* where screen_resumes_endpoint stands; "off" otherwise
    next_file,               \* the position of the for loop in resume_files
    temp_files,              \* the temporary files that exist
    processed_candidates,    \* the entries appended so far
    response                 \* what the request was answered with

parse_vars == <<skills_file, KNOWN_SKILLS, printed, resume_raw_text, doc_ents,
                extracted_data, parse_pc>>

score_vars == <<job_description, parsed_data, skill_cos_sim,
                responsibility_cos_sim, scored, score_pc>>

screen_vars == <<resume_files, handler_pc, next_file, temp_files,
                 processed_candidates, response>>

vars == <<parse_vars, score_vars, screen_vars>>

NotCalled == "not called"

ParseOff ==
    /\ skills_file = Missing
    /\ KNOWN_SKILLS = <<>>
    /\ printed = <<>>
    /\ resume_raw_text = None
    /\ doc_ents = <<>>
    /\ extracted_data = None
    /\ parse_pc = "off"

ScoreOff ==
    /\ job_description = None
    /\ parsed_data = None
    /\ skill_cos_sim = NotCalled
    /\ responsibility_cos_sim = NotCalled
    /\ scored = None
    /\ score_pc = "off"

ScreenOff ==
    /\ resume_files = <<>>
    /\ handler_pc = "off"
    /\ next_file = 0
    /\ temp_files = {}
    /\ processed_candidates = <<>>
    /\ response = None

(***************************************************************************)
(* The extractor as a state machine                                        *)
(***************************************************************************)
\* parse_resume_info without entities and vocabulary, over the resumes,
\* evaluated once: the sections that read the text alone
TextSignals == [t \in ResumeTexts |-> parse_resume_info(t, <<>>, <<>>, <<>>)] @@ <<>>

InitParse ==
    /\ skills_file \in SkillsFiles
    /\ KNOWN_SKILLS = <<>>
    /\ printed = <<>>
    /\ resume_raw_text = None
    /\ doc_ents = <<>>
    /\ extracted_data = None
    /\ parse_pc = "import"
    /\ ScoreOff
    /\ ScreenOff

\* the import of resume_parser: KNOWN_SKILLS = load_common_skills(..) and
\* KNOWN_SKILLS.sort(key=len, reverse=True)
ImportResumeParser ==
    /\ parse_pc = "import"
    /\ LET loaded == load_common_skills(skills_file)
       IN  /\ KNOWN_SKILLS' \in SortedByLengthDesc(loaded.skills)
           /\ printed' = loaded.printed
    /\ parse_pc' = "ready"
    /\ UNCHANGED <<skills_file, resume_raw_text, doc_ents, extracted_data,
                   score_vars, screen_vars>>

\* parsed_data = parse_resume_info(raw_text)
ParseResumeInfo ==
    /\ parse_pc = "ready"
    /\ \E text \in ResumeTexts :
       \E ents \in EntitiesIn(text) :
       \E skills \in Orderings(FoundSkills(text, KNOWN_SKILLS)) :
          /\ resume_raw_text' = text
          /\ doc_ents' = ents
          /\ extracted_data' =
                 [TextSignals[text] EXCEPT
                     !.name = IF ExtractName(<<>>, ents) # None
                              THEN ExtractName(<<>>, ents) ELSE @,
                     !.skills = skills]
    /\ parse_pc' = "returned"
    /\ UNCHANGED <<skills_file, KNOWN_SKILLS, printed, score_vars, screen_vars>>

NextParse == ImportResumeParser \/ ParseResumeInfo

SpecParse == InitParse /\ [][NextParse]_vars

(***************************************************************************)
(* The scoring call as a state machine                                     *)
(***************************************************************************)
\* _extract_jd_requirements over the job descriptions, evaluated once
MinedRequirements == [t \in JdTexts |-> _extract_jd_requirements(t)] @@ <<>>

InitScore ==
    /\ job_description \in JdTexts
    /\ parsed_data = None
    /\ skill_cos_sim = NotCalled
    /\ responsibility_cos_sim = NotCalled
    /\ scored = None
    /\ score_pc = "idle"
    /\ ParseOff
    /\ ScreenOff

\* ai_score, ai_reasoning = score_resume(parsed_data, job_description, model_sbert)
ScoreResume ==
    /\ score_pc = "idle"
    /\ LET jd_requirements == MinedRequirements[job_description]
       IN  \E cand \in CandidateRecords :
           \E m \in CosineMatrices(jd_requirements.skills, cand.skills) :
           \E sim \in RespSims :
              LET out == ScoreAgainst(cand, jd_requirements, m, sim)
              IN  /\ (sim = Min(RespSims) \/ out.responsibility_encodes # <<>>)
                  /\ parsed_data' = cand
                  /\ skill_cos_sim' = IF out.skill_encodes # <<>> /\ cand.skills # <<>>
                                      THEN m ELSE NotCalled
                  /\ responsibility_cos_sim' = IF out.responsibility_encodes # <<>>
                                 THEN sim ELSE NotCalled
                  /\ scored' = out
                  /\ score_pc' = "returned"
    /\ UNCHANGED <<job_description, parse_vars, screen_vars>>

NextScore == ScoreResume

SpecScore == InitScore /\ [][NextScore]_vars

(***************************************************************************)
(* The request handler: screen_resumes_endpoint of app.py                  *)
(***************************************************************************)
\* a request uploads at most MaxFiles files
MaxFiles == 2

\* "2 yrs exp\n5 years of experience\n"
ResumeTwoStatements ==
    <<"2"," ","y","r","s"," ","e","x","p","\n","5"," ","y","e","a","r","s"," ","o","f"," ","e","x","p","e","r","i","e","n","c","e","\n">>

\* the texts extract_text_from_file may yield for an upload
ScreenTexts == {ResumeBody, ResumeTwoStatements, ResumeBlankLine}

\* the job_description field of the form; None when the form has none
ScreenJds == {None, JdExperienceLine, JdExperienceLine \o JdDutiesLine}

\* what may go wrong with one upload: saving it to the temporary path,
\* extract_text_from_file (an empty result, or an exception), nlp() inside
\* parse_resume_info (a ValueError), insert_resume (None for the row id) and
\* score_resume (an exception of the embedding model)
Faults == {"none", "save", "extract_empty", "extract_raise", "parse", "insert",
           "score"}

\* the uploads of a request: a file field left empty, or a file with what
\* its processing will meet
Uploads ==
    {[filename |-> "", fault |-> "none", text |-> ResumeBlankLine]}
    \cup {[filename |-> "cv.txt", fault |-> "none", text |-> t] : t \in ScreenTexts}
    \cup {[filename |-> "cv.txt", fault |-> f, text |-> ResumeBody] :
              f \in Faults \ {"none"}}

\* parse_resume_info without entities and vocabulary over ScreenTexts,
\* evaluated once
ScreenSignals == [t \in ScreenTexts |-> parse_resume_info(t, <<>>, <<>>, <<>>)] @@ <<>>

\* resume_db_id = None: no row of the resumes table (the ids of rows start at 1)
NoRowId == 0

\* the body of the try block for one upload (parsed_data = {} is <<>> here
\* until parse_resume_info returns): what the locals parsed_data,
\* resume_db_id, ai_score (in hundredths) and ai_reasoning are when the
\* finally clause is reached, whether parse_resume_info and score_resume
\* returned, and the locals of score_resume
TryProcess(resume_file, record, row_id, out) ==
    LET Failed(data, id, reasoning, was_parsed) ==
            [parsed_data |-> data, resume_db_id |-> id, ai_score |-> 0,
             ai_reasoning |-> reasoning, parsed |-> was_parsed, scored |-> FALSE]
    IN  IF resume_file.fault = "extract_raise"
        THEN Failed(<<>>, NoRowId,
                    <<"Server error during processing: ",
                      "extract_text_from_file failed">>, FALSE)
        ELSE IF resume_file.fault = "extract_empty"
        THEN Failed(<<>>, NoRowId,
                    <<"File processing/parsing error: ",
                      "Could not extract text from resume. File might be empty or unreadable.">>,
                    FALSE)
        ELSE IF resume_file.fault = "parse"
        THEN Failed(<<>>, NoRowId,
                    <<"File processing/parsing error: ", "nlp failed">>, FALSE)
        ELSE IF resume_file.fault = "insert"
        THEN Failed(record, NoRowId,
                    <<"Server error during processing: ",
                      "Failed to save resume to database.">>, TRUE)
        ELSE IF resume_file.fault = "score"
        THEN Failed(record, row_id,
                    <<"Server error during processing: ", "encode failed">>, TRUE)
        ELSE [parsed_data |-> record, resume_db_id |-> row_id,
              ai_score |-> out.final_score,
              ai_reasoning |-> out.overall_reasoning,
              parsed |-> TRUE, scored |-> TRUE]

\* processed_candidates.sort(key=lambda x: x['score'], reverse=True): the
\* stable sort, entries of equal score keep their order
RECURSIVE SortByScoreDesc(_)
SortByScoreDesc(entries) ==
    IF Len(entries) <= 1 THEN entries
    ELSE LET rest == SortByScoreDesc(SubSeq(entries, 1, Len(entries) - 1))
             last == entries[Len(entries)]
             k == Cardinality({i \in 1..Len(rest) : rest[i].score >= last.score})
         IN  SubSeq(rest, 1, k) \o <<last>> \o SubSeq(rest, k + 1, Len(rest))

InitScreen ==
    /\ skills_file = SkillsFileLines
    /\ KNOWN_SKILLS \in SortedByLengthDesc(load_common_skills(skills_file).skills)
    /\ printed = <<>>
    /\ resume_raw_text = None
    /\ doc_ents = <<>>
    /\ extracted_data = None
    /\ parse_pc = "ready"
    /\ job_description \in ScreenJds
    /\ parsed_data = None
    /\ skill_cos_sim = NotCalled
    /\ responsibility_cos_sim = NotCalled
    /\ scored = None
    /\ score_pc = "idle"
    /\ resume_files \in UNION {[1..n -> Uploads] : n \in 0..MaxFiles}
    /\ handler_pc = "received"
    /\ next_file = 0
    /\ temp_files = {}
    /\ processed_candidates = <<>>
    /\ response = None

\* the validation of the form and of the files, up to the for loop
ValidateRequest ==
    /\ handler_pc = "received"
    /\ IF job_description = None
       THEN /\ response' = [status |-> 400,
                            error |-> "Missing 'job_description' form field"]
            /\ handler_pc' = "rejected"
            /\ UNCHANGED next_file
       ELSE IF Len(resume_files) = 0
       THEN /\ response' = [status |-> 400,
                            error |-> "No 'resume_files' part in the request"]
            /\ handler_pc' = "rejected"
            /\ UNCHANGED next_file
       ELSE IF \A i \in 1..Len(resume_files) : resume_files[i].filename = ""
       THEN /\ response' = [status |-> 400,
                            error |-> "No files selected or uploaded"]
            /\ handler_pc' = "rejected"
            /\ UNCHANGED next_file
       ELSE /\ handler_pc' = "loop"
            /\ next_file' = 1
            /\ UNCHANGED response
    /\ UNCHANGED <<parse_vars, score_vars, resume_files, temp_files,
                   processed_candidates>>

\* one pass of the for loop: the temporary file, the try block, its except
\* and finally clauses and the append; an exception of resume_file.save
\* leaves the function and is answered by handle_exception
ProcessResumeFile ==
    /\ handler_pc = "loop"
    /\ next_file <= Len(resume_files)
    /\ LET resume_file == resume_files[next_file]
           temp_file_path == next_file
           created == temp_files \cup {temp_file_path}
       IN  IF resume_file.filename = ""
           THEN /\ next_file' = next_file + 1
                /\ UNCHANGED <<parse_vars, score_vars, resume_files, handler_pc,
                               temp_files, processed_candidates, response>>
           ELSE IF resume_file.fault = "save"
           THEN /\ temp_files' = created
                /\ handler_pc' = "aborted"
                /\ response' = [status |-> 500,
                                error |-> "An unexpected server error occurred."]
                /\ UNCHANGED <<parse_vars, score_vars, resume_files, next_file,
                               processed_candidates>>
           ELSE \E ents \in EntitiesIn(resume_file.text) :
                \E skills \in Orderings(FoundSkills(resume_file.text, KNOWN_SKILLS)) :
                \E sim \in RespSims :
                \E record \in {[ScreenSignals[resume_file.text] EXCEPT
                                     !.name = IF ExtractName(<<>>, ents) # None
                                              THEN ExtractName(<<>>, ents) ELSE @,
                                     !.skills = skills]} :
                \E row_id \in {1 + Cardinality({i \in 1..Len(processed_candidates) :
                                     processed_candidates[i].id # NoRowId})} :
                \E jd_requirements \in {MinedRequirements[job_description]} :
                \E out \in {ScoreAgainst(record, jd_requirements, <<>>, sim)} :
                \E try \in {TryProcess(resume_file, record, row_id, out)} :
                       /\ jd_requirements.skills = <<>>
                       /\ (sim = Min(RespSims)
                              \/ (try.scored /\ out.responsibility_encodes # <<>>))
                       /\ resume_raw_text' = IF try.parsed THEN resume_file.text
                                             ELSE resume_raw_text
                       /\ doc_ents' = IF try.parsed THEN ents ELSE doc_ents
                       /\ extracted_data' = IF try.parsed THEN record
                                            ELSE extracted_data
                       /\ parse_pc' = IF try.parsed THEN "returned" ELSE parse_pc
                       /\ parsed_data' = IF try.scored THEN record ELSE parsed_data
                       /\ skill_cos_sim' = IF try.scored THEN NotCalled
                                           ELSE skill_cos_sim
                       /\ responsibility_cos_sim' =
                              IF try.scored
                              THEN IF out.responsibility_encodes # <<>>
                                   THEN sim ELSE NotCalled
                              ELSE responsibility_cos_sim
                       /\ scored' = IF try.scored THEN out ELSE scored
                       /\ score_pc' = IF try.scored THEN "returned" ELSE score_pc
                       /\ temp_files' = created \ {temp_file_path}
                       /\ processed_candidates' =
                              Append(processed_candidates,
                                     [id |-> try.resume_db_id,
                                      filename |-> resume_file.filename,
                                      name |-> IF try.parsed_data = <<>>
                                               THEN "N/A" ELSE try.parsed_data.name,
                                      score |-> try.ai_score,
                                      reasoning |-> try.ai_reasoning,
                                      extracted_skills |->
                                          IF try.parsed_data = <<>>
                                          THEN <<>> ELSE try.parsed_data.skills])
                       /\ next_file' = next_file + 1
                       /\ UNCHANGED <<skills_file, KNOWN_SKILLS, printed,
                                      job_description, resume_files, handler_pc,
                                      response>>

\* after the loop: the sort by score and the response
Respond ==
    /\ handler_pc = "loop"
    /\ next_file > Len(resume_files)
    /\ processed_candidates' = SortByScoreDesc(processed_candidates)
    /\ response' = [status |-> 200, candidates |-> processed_candidates']
    /\ handler_pc' = "responded"
    /\ UNCHANGED <<parse_vars, score_vars, resume_files, next_file, temp_files>>

NextScreen == ValidateRequest \/ ProcessResumeFile \/ Respond

SpecScreen == InitScreen /\ [][NextScreen]_vars

(***************************************************************************)
(* Properties of score_resume                                              *)
(***************************************************************************)
\* C1: the score score_resume returns is 0.40*skill + 0.30*experience +
\* 0.20*responsibility + 0.10*education of the sub-scores of that call,
\* rounded to two decimals: its distance to the weighted sum is at most half
\* a hundredth
C1_FinalScoreIsWeightedSum ==
    score_pc = "returned" =>
        LET s == scored.skill_match_score
            e == scored.experience_score
            r == scored.responsibility_score
            u == scored.education_score
            D == s.d * e.d * r.d * u.d
            N == 40 * s.n * e.d * r.d * u.d + 30 * e.n * s.d * r.d * u.d
                 + 20 * r.n * s.d * e.d * u.d + 10 * u.n * s.d * e.d * r.d
            f == scored.final_score
        IN  /\ 2 * (N - f * D) <= D
            /\ 2 * (f * D - N) <= D

\* a call whose weighted sum has more than two decimals, with both the
\* skill lists and the responsibilities compared by embedding
C1_RoundedSumReturned ==
    /\ score_pc = "returned"
    /\ (scored.total_score.n * 100) % scored.total_score.d # 0
    /\ scored.skill_encodes # <<>>
    /\ scored.responsibility_encodes # <<>>

\* C2: for every candidate record, job description and similarity in
\* [-1, 1], the score score_resume returns lies in [0, 100]
C2_FinalScoreWithinRange ==
    score_pc = "returned" =>
        scored.final_score >= 0 /\ scored.final_score <= 100 * 100

\* C3: when the mined requirements hold no required skill, the skill
\* sub-score is 100 whatever the candidate's skills, and nothing is embedded
\* or compared for it
C3_NoRequiredSkillsScoresFull ==
    (score_pc = "returned" /\ scored.jd_requirements.skills = <<>>) =>
        /\ scored.skill_match_score.n = 100
        /\ scored.skill_match_score.d = 1
        /\ scored.skill_encodes = <<>>
        /\ skill_cos_sim = NotCalled

\* a candidate with skills scored against a JD that requires none
C3_SkilledCandidateNoRequiredSkills ==
    /\ score_pc = "returned"
    /\ scored.jd_requirements.skills = <<>>
    /\ parsed_data.skills # <<>>

\* C4: when the candidate has no extracted skill and the JD requires at
\* least one, the skill sub-score is 0 and the returned score is the
\* rounded weighted sum of the other three sub-scores
C4_NoCandidateSkillsScoresZero ==
    (score_pc = "returned" /\ parsed_data.skills = <<>>
        /\ scored.jd_requirements.skills # <<>>) =>
        LET e == scored.experience_score
            r == scored.responsibility_score
            u == scored.education_score
            D == e.d * r.d * u.d
            N == 30 * e.n * r.d * u.d + 20 * r.n * e.d * u.d + 10 * u.n * e.d * r.d
            f == scored.final_score
        IN  /\ scored.skill_match_score.n = 0
            /\ 2 * (N - f * D) <= D
            /\ 2 * (f * D - N) <= D

\* a candidate without skills scored against a JD that requires some
C4_UnskilledCandidateRequiredSkills ==
    /\ score_pc = "returned"
    /\ parsed_data.skills = <<>>
    /\ Len(scored.jd_requirements.skills) >= 1

\* C5: for a minimum m > 0 the experience sub-score is 100*y/m when y < m,
\* 100 when y >= m, never above 100, and does not decrease when the years
\* grow
C5_ExperienceScoreMonotoneCapped ==
    (score_pc = "returned" /\ scored.jd_requirements.experience_years > 0) =>
        LET m == scored.jd_requirements.experience_years
            y == scored.experience_years_in_resume
            sc == scored.experience_score
        IN  /\ y < m => sc.n * m = 100 * y * sc.d
            /\ y >= m => (sc.n = 100 /\ sc.d = 1)
            /\ sc.n <= 100 * sc.d
            /\ \A y1, y2 \in 0..(MaxYears + 1) :
                  y1 <= y2 =>
                      LET a == ExperienceSection(m, y1).score
                          b == ExperienceSection(m, y2).score
                      IN  a.n * b.d <= b.n * a.d

\* a candidate with more years than the minimum the JD asks for
C5_MoreYearsThanRequired ==
    /\ score_pc = "returned"
    /\ scored.jd_requirements.experience_years > 0
    /\ scored.experience_years_in_resume > scored.jd_requirements.experience_years

\* C6: the mined minimum is never negative; a JD text without the word
\* "years", "yrs" or "yr" has no minimum-experience pattern, its mined
\* minimum is 0, and the experience sub-score is then 100 for every
\* candidate
C6_NoMinimumScoresFull ==
    score_pc = "returned" =>
        /\ scored.jd_requirements.experience_years >= 0
        /\ (\A i \in 1..Len(job_description) :
               ~LitAt(job_description, i, W_years) /\ ~LitAt(job_description, i, W_yr))
           => /\ scored.jd_requirements.experience_years = 0
              /\ scored.experience_score.n = 100
              /\ scored.experience_score.d = 1

\* a candidate without experience signal scored against a JD that has
\* digits but no minimum-experience pattern
C6_NoSignalNoMinimum ==
    /\ score_pc = "returned"
    /\ \E i \in 1..Len(job_description) : IsDigit(job_description[i])
    /\ \A i \in 1..Len(job_description) :
          ~LitAt(job_description, i, W_years) /\ ~LitAt(job_description, i, W_yr)
    /\ parsed_data.experience = <<>>
    /\ scored.experience_years_in_resume = 0

\* C7: the education sub-score is 0 or 100: 100 with the sentence "No
\* specific education required in JD." when no term is mined, 100 when a
\* mined term is a case-insensitive substring of the space-joined education
\* signals, 0 otherwise
C7_EducationScoreBinary ==
    score_pc = "returned" =>
        LET terms == scored.jd_requirements.education
            text == Join(parsed_data.education, <<" ">>)
            named == \E k \in 1..Len(terms) : \E i \in 1..Len(text) :
                        /\ i + Len(terms[k]) - 1 <= Len(text)
                        /\ \A c \in 1..Len(terms[k]) :
                              LowerChar(text[i + c - 1]) = LowerChar(terms[k][c])
            sc == scored.education_score
        IN  /\ sc.d = 1
            /\ sc.n \in {0, 100}
            /\ terms = <<>> =>
                  /\ sc.n = 100
                  /\ scored.reasoning_parts[4] = <<"No specific education required in JD.">>
            /\ terms # <<>> => (sc.n = 100 <=> named)

\* a candidate with education signals scored against a JD that names an
\* education term
C7_EducationRequiredAndNamed ==
    /\ score_pc = "returned"
    /\ scored.jd_requirements.education # <<>>
    /\ parsed_data.education # <<>>
    /\ scored.education_score.n = 100

\* the openings of the sentences each section of score_resume may append
SkillSentenceOpenings ==
    {"Matched ", "No skills found in resume to match against JD skills.",
     "No specific skills required in JD."}

ExperienceSentenceOpenings ==
    {"Meets/Exceeds ", "Has ", "No minimum experience required in JD."}

ResponsibilitySentenceOpenings ==
    {"Overall resume content aligns with responsibilities (",
     "Cannot assess responsibilities due to missing JD or resume content."}

EducationSentenceOpenings ==
    {"Education matches JD requirements (",
     "No specific education required in JD."}

\* C12: on every path of score_resume the reasoning is four sentences, one
\* of the skill section, one of the experience section, one of the
\* responsibility section and one of the education section, in this order
\* and with exactly one space between two neighbours
C12_ReasoningIsFourSentences ==
    score_pc = "returned" =>
        LET p == scored.reasoning_parts
        IN  /\ Len(p) = 4
            /\ p[1][1] \in SkillSentenceOpenings
            /\ p[2][1] \in ExperienceSentenceOpenings
            /\ p[3][1] \in ResponsibilitySentenceOpenings
            /\ p[4][1] \in EducationSentenceOpenings
            /\ scored.overall_reasoning =
                   p[1] \o <<" ">> \o p[2] \o <<" ">> \o p[3] \o <<" ">> \o p[4]

\* a call that compares the skill lists, falls short of the required years
\* and compares the responsibilities
C12_ThreeSectionsAtWork ==
    /\ score_pc = "returned"
    /\ scored.reasoning_parts[1][1] = "Matched "
    /\ scored.reasoning_parts[2][1] = "Has "
    /\ scored.reasoning_parts[3][1] =
           "Overall resume content aligns with responsibilities ("

\* the required skills that some skill of the candidate matches: a
\* similarity above 0.6
MatchedRequired ==
    {i \in 1..Len(scored.jd_requirements.skills) :
        \E j \in 1..Len(parsed_data.skills) : skill_cos_sim[i, j] > 600}

\* C13: when the job requires a skill and the candidate has one, the skill
\* score is 100 * matched / required, a required skill being matched when
\* its best similarity over the candidate's skills is strictly above 0.6
C13_SkillScoreIsMatchedShare ==
    (/\ score_pc = "returned"
     /\ scored.jd_requirements.skills # <<>>
     /\ parsed_data.skills # <<>>) =>
        scored.skill_match_score.n * Len(scored.jd_requirements.skills)
            = 100 * Cardinality(MatchedRequired) * scored.skill_match_score.d

\* one of two required skills matched, the other with a best similarity of
\* exactly 0.6: the skill score is 50
C13_OneOfTwoMatched ==
    /\ score_pc = "returned"
    /\ Len(scored.jd_requirements.skills) = 2
    /\ parsed_data.skills # <<>>
    /\ \E i \in 1..2 :
           Max({skill_cos_sim[i, j] : j \in 1..Len(parsed_data.skills)}) = 600
    /\ scored.skill_match_score = Rat(50, 1)

\* a score of a section lies in [0, 100]
InUnitRange(score) == RatLe(Rat(0, 1), score) /\ RatLe(score, Rat(100, 1))

\* C14: each of the four section scores of score_resume lies in [0, 100],
\* the responsibility score of a negative similarity included
C14_SubScoresWithinRange ==
    score_pc = "returned" =>
        /\ InUnitRange(scored.skill_match_score)
        /\ InUnitRange(scored.experience_score)
        /\ InUnitRange(scored.responsibility_score)
        /\ InUnitRange(scored.education_score)

\* a title-cased heading line starts after the line end at position q of
\* text: a capital letter, letters and blanks, a colon
TitleCasedHeadingAt(text, q) ==
    /\ q + 1 <= Len(text)
    /\ text[q] = "\n"
    /\ text[q + 1] \in Range(UpperChars)
    /\ LET r == RunEnd(text, q + 2, AlphaClass \cup {" ", "\t"})
       IN  r <= Len(text) /\ text[r] = ":"

\* the fragments of the section that the first header synonym of headers
\* opens in text when the capture runs to the first blank line, title-cased
\* heading line or end of the text
FragmentsToSectionEnd(text, headers) ==
    LET lowered == ToLower(text)
        starts == {i \in 1..Len(text) :
                      \E h \in 1..Len(headers) : HeaderEnd(lowered, i, headers[h]) # 0}
    IN  IF starts = {} THEN <<>>
        ELSE LET e == FirstHeaderEnd(lowered, Min(starts), headers)
                 p == SkipSpace(lowered, IF e <= Len(text) /\ text[e] = ":"
                                         THEN e + 1 ELSE e)
                 q == Min({j \in p..(Len(text) + 1) :
                              \/ j = Len(text) + 1
                              \/ (j + 1 <= Len(text) /\ text[j] = "\n"
                                                     /\ text[j + 1] = "\n")
                              \/ TitleCasedHeadingAt(text, j)})
             IN  SectionItems(SubSeq(lowered, p, q - 1))

\* C16: the skills, responsibilities and education the miner returns are
\* the fragments of the text from the first header synonym to the first
\* blank line, title-cased heading line or end of text; a line that is no
\* title-cased heading does not end the section, so every item line of it
\* is a fragment
C16_SectionRunsToBlankLineOrHeading ==
    score_pc = "returned" =>
        /\ scored.jd_requirements.skills
               = FragmentsToSectionEnd(job_description, SkillHeaders)
        /\ scored.jd_requirements.responsibilities
               = FragmentsToSectionEnd(job_description, ResponsibilityHeaders)
        /\ scored.jd_requirements.education
               = FragmentsToSectionEnd(job_description, EducationHeaders)

(***************************************************************************)
(* Properties of parse_resume_info                                         *)
(***************************************************************************)
\* C8: parse_resume_info does not return a record for an empty or blank
\* text
C8_BlankTextIsRejected ==
    parse_pc = "returned" => Strip(resume_raw_text) # <<>>

\* C9: when the skills file cannot be loaded, parse_resume_info does not
\* go on with an empty vocabulary and return a record without skills
C9_MissingVocabularyIsSurfaced ==
    ~(/\ skills_file = Missing
      /\ parse_pc = "returned"
      /\ KNOWN_SKILLS = <<>>
      /\ extracted_data.skills = <<>>)

\* the entity recogniser reported no person of two words or more
NoQualifyingPerson ==
    \A i \in 1..Len(doc_ents) :
        ~(doc_ents[i].label_ = "PERSON" /\ WordCount(doc_ents[i].text) >= 2)

\* a line the fallback takes for a name: no '@', no ten digits in a row,
\* fewer than five words
Plausible(line) ==
    /\ \A i \in 1..Len(line) : line[i] # "@"
    /\ ~\E i \in 1..(Len(line) - 9) : \A k \in 0..9 : IsDigit(line[i + k])
    /\ WordCount(line) < 5

\* the call returned, no qualifying person was reported, and the first
\* non-blank line of the text holds an '@'
FirstLineHasAt ==
    /\ parse_pc = "returned"
    /\ NoQualifyingPerson
    /\ NonBlankLines(resume_raw_text) # <<>>
    /\ \E i \in 1..Len(NonBlankLines(resume_raw_text)[1]) :
          NonBlankLines(resume_raw_text)[1][i] = "@"

\* C10 as stated: without a qualifying person entity and with an '@' in the
\* first non-blank line, the name is None whatever the following lines hold
C10_AtSignFirstLineMeansNoName ==
    FirstLineHasAt => extracted_data.name = None

\* C10: without a qualifying person entity and with an '@' in the first
\* non-blank line, the name is the second non-blank line if that one is
\* plausible, else the third if that one is, else None; no later line is
\* taken
C10_NameFromSecondOrThirdLine ==
    FirstLineHasAt =>
        LET lines == NonBlankLines(resume_raw_text)
        IN  IF Len(lines) >= 2 /\ Plausible(lines[2])
            THEN extracted_data.name = lines[2]
            ELSE IF Len(lines) >= 3 /\ Plausible(lines[3])
            THEN extracted_data.name = lines[3]
            ELSE extracted_data.name = None

\* a text whose first three non-blank lines are not plausible and whose
\* fourth is: the name is None
C10_PlausibleFourthLineIgnored ==
    /\ FirstLineHasAt
    /\ Len(NonBlankLines(resume_raw_text)) >= 4
    /\ Plausible(NonBlankLines(resume_raw_text)[4])
    /\ extracted_data.name = None

\* C11: the skills of the record returned are exactly the entries of the
\* loaded vocabulary that occur in the raw text without regard to case, each
\* of them once: nothing outside the vocabulary, nothing that is not a
\* substring, and a short entry stays when a longer entry holding it matches
C11_SkillsAreMatchingVocabulary ==
    parse_pc = "returned" =>
        /\ Range(extracted_data.skills) =
               {e \in Range(KNOWN_SKILLS) :
                   Contains(ToLower(resume_raw_text), ToLower(e))}
        /\ Len(extracted_data.skills) = Cardinality(Range(extracted_data.skills))

\* a text with "Machine Learning" parsed under the loaded vocabulary: the
\* long entry and the short one it holds are both recorded
C11_ShortAndLongEntryRecorded ==
    /\ parse_pc = "returned"
    /\ ToLower(T_Machine_Learning) \in Range(extracted_data.skills)
    /\ <<"l","e","a","r","n","i","n","g">> \in Range(extracted_data.skills)

(***************************************************************************)
(* Properties of screen_resumes_endpoint                                   *)
(***************************************************************************)
\* " years of experience"
T_years_of_experience ==
    <<" ","y","e","a","r","s"," ","o","f"," ","e","x","p","e","r","i","e","n","c","e">>

\* "+ years of experience"
T_plus_years_of_experience ==
    <<"+"," ","y","e","a","r","s"," ","o","f"," ","e","x","p","e","r","i","e","n","c","e">>

\* the text reads lit from position i on
ReadsAt(text, i, lit) ==
    /\ i >= 1
    /\ i + Len(lit) - 1 <= Len(text)
    /\ SubSeq(text, i, i + Len(lit) - 1) = lit

\* the record score_resume was last given is the one parse_resume_info
\* last returned: both calls served the same upload
SameUploadParsedAndScored ==
    /\ parse_pc = "returned"
    /\ score_pc = "returned"
    /\ parsed_data = extracted_data

\* where the first statement of years of experience starts in a resume
\* text, 0 when it holds none
FirstResumeStatement(text) ==
    LET starts == {i \in 1..Len(text) : ResumeExpAt(ToLower(text), i) # None}
    IN  IF starts = {} THEN 0 ELSE Min(starts)

\* where the first statement of required years starts in a job description,
\* 0 when it holds none
FirstJdStatement(text) ==
    LET starts == {i \in 1..Len(text) : ExpPatternAt(ToLower(text), i) # -1}
    IN  IF starts = {} THEN 0 ELSE Min(starts)

\* C15 as stated: a resume text that contains "<n> years of experience" is
\* stored with the one signal "<n> years experience", the scorer reads the
\* same n out of it, and against a job description that states
\* "<m>+ years of experience" with n >= m > 0 the experience score is 100
C15_ContainedStatementAgreed ==
    SameUploadParsedAndScored =>
        \A n \in 0..9 :
            Contains(resume_raw_text, NatToStr(n) \o T_years_of_experience) =>
                /\ extracted_data.experience = <<NatToStr(n) \o T_years_experience>>
                /\ scored.experience_years_in_resume = n
                /\ \A m \in 1..n :
                       Contains(job_description,
                                NatToStr(m) \o T_plus_years_of_experience)
                           => scored.experience_score = Rat(100, 1)

\* the n for which the first statement of a resume text reads
\* "<n> years of experience", over the texts of the uploads
LeadingResumeYears ==
    [t \in ScreenTexts |->
        {n \in 0..9 : ReadsAt(t, FirstResumeStatement(t),
                              NatToStr(n) \o T_years_of_experience)}] @@ <<>>

\* the m for which the first statement of required years of a job
\* description reads "<m>+ years of experience"
LeadingJdYears ==
    [t \in ScreenJds \ {None} |->
        {m \in 1..9 : ReadsAt(t, FirstJdStatement(t),
                              NatToStr(m) \o T_plus_years_of_experience)}] @@ <<>>

\* C15, amended: a resume text whose first statement of years of experience
\* is "<n> years of experience" is stored with the one signal
\* "<n> years experience", the scorer reads the same n out of it, and
\* against a job description whose first statement of required years is
\* "<m>+ years of experience" with n >= m > 0 the experience score is 100
C15_FirstStatementAgreed ==
    SameUploadParsedAndScored =>
        \A n \in LeadingResumeYears[resume_raw_text] :
            /\ extracted_data.experience = <<NatToStr(n) \o T_years_experience>>
            /\ scored.experience_years_in_resume = n
            /\ \A m \in LeadingJdYears[job_description] :
                   n >= m => scored.experience_score = Rat(100, 1)

\* a resume that opens with "5 years of experience" scored against a job
\* description that opens with "3+ years of experience": 100
C15_FiveYearsAgainstThree ==
    /\ SameUploadParsedAndScored
    /\ 5 \in LeadingResumeYears[resume_raw_text]
    /\ 3 \in LeadingJdYears[job_description]
    /\ scored.experience_years_in_resume = 5
    /\ scored.experience_score = Rat(100, 1)

\* the request is over: answered by the function or by handle_exception
RequestFinished == handler_pc \in {"rejected", "responded", "aborted"}

\* C17: when the request is over no temporary file of an upload exists,
\* whatever the processing of the uploads met
C17_TempFilesRemoved == RequestFinished => temp_files = {}

\* the openings of the reasoning of an upload whose processing failed
ErrorOpenings ==
    {"File processing/parsing error: ", "Server error during processing: "}

\* the uploads with a filename, and those of them whose processing fails
\* before score_resume returns
NamedUploads == {i \in 1..Len(resume_files) : resume_files[i].filename # ""}

FailingUploads == {i \in NamedUploads : resume_files[i].fault # "none"}

\* C18: a request with a job description and a named upload is answered
\* with one entry per named upload, in descending order of score, whatever
\* fails for one of the uploads; the entries of the uploads that failed
\* before the scoring was done have score 0.0 and a reasoning that reports
\* the error
C18_OneEntryPerUpload ==
    (RequestFinished /\ job_description # None /\ NamedUploads # {}) =>
        /\ response.status = 200
        /\ Len(response.candidates) = Cardinality(NamedUploads)
        /\ \A i \in 1..(Len(response.candidates) - 1) :
               response.candidates[i].score >= response.candidates[i + 1].score
        /\ Cardinality({i \in 1..Len(response.candidates) :
                           /\ response.candidates[i].score = 0
                           /\ response.candidates[i].reasoning[1] \in ErrorOpenings})
               = Cardinality(FailingUploads)

=============================================================================
